---------------------------- MODULE Spec2Model ----------------------------
(***************************************************************************)
(* AI Text Transformer Toolbox: the prompt catalog (prompt_utils.py), the  *)
(* composer and the Ollama client (ollama_api.py), the preference store    *)
(* (config.py) and the Streamlit script (app.py).                          *)
(*                                                                         *)
(* Python str values that the code inspects character by character (ids,   *)
(* names, descriptions, prompt texts, search terms) are sequences of       *)
(* one-character strings; str values the code only stores and compares     *)
(* (model names, paths, user text, response bodies) are TLA+ strings.      *)
(***************************************************************************)
EXTENDS Integers, Sequences, FiniteSets, TLC

(***************************************************************************)
(* Python str primitives                                                   *)
(***************************************************************************)
\* The characters that occur in the model, in code point order.
AsciiOrder ==
  <<"\n"," ","'",",",".","A","B","C","D","E","F","G","H","I","J","K","L","M",
        "N","O","P","Q","R","S","T","U","V","W","X","Y","Z","_","a","b","c",
        "d","e","f","g","h","i","j","k","l","m","n","o","p","q","r","s","t",
        "u","v","w","x","y","z">>

UpperChars ==
  <<"A","B","C","D","E","F","G","H","I","J","K","L","M","N","O","P","Q","R",
        "S","T","U","V","W","X","Y","Z">>

LowerChars ==
  <<"a","b","c","d","e","f","g","h","i","j","k","l","m","n","o","p","q","r",
        "s","t","u","v","w","x","y","z">>

Range(s) == {s[i] : i \in 1..Len(s)}

IndexIn(c, s) == CHOOSE i \in 1..Len(s) : s[i] = c

\* ord(c), up to an order-preserving renumbering.
CodePoint(c) == IndexIn(c, AsciiOrder)

\* str.lower() on one character and on a string.
lower_char(c) ==
  IF c \in Range(UpperChars) THEN LowerChars[IndexIn(c, UpperChars)] ELSE c

lower(s) == [i \in 1..Len(s) |-> lower_char(s[i])]

\* Python's `sub in s` on strings.
str_in(sub, s) ==
  \E i \in 0..(Len(s) - Len(sub)) : SubSeq(s, i + 1, i + Len(sub)) = sub

\* Python's `a < b` on strings: lexicographic by code point.
str_lt(a, b) ==
  \E k \in 1..(Len(b)) :
    /\ k <= Len(a) + 1
    /\ \A j \in 1..(k - 1) : a[j] = b[j]
    /\ \/ k = Len(a) + 1
       \/ k <= Len(a) /\ CodePoint(a[k]) < CodePoint(b[k])

\* dict.get(key, default)
Get(d, key, default) == IF key \in DOMAIN d THEN d[key] ELSE default

\* The empty dict {}.
EmptyDict == [k \in {} |-> k]

\* A local variable: v is computed once and then used, as in `x = v; F(x)`.
Bind(v, F(_)) == CHOOSE r \in {F(x) : x \in {v}} : TRUE

Unknown ==
  <<"U","n","k","n","o","w","n">>

(***************************************************************************)
(* Fixed texts of the program                                              *)
(***************************************************************************)
\* get_default_prompt()["prompt"]
DefaultPromptText ==
  <<"T","a","k","e"," ","t","h","e"," ","f","o","l","l","o","w","i","n","g",
        " ","t","e","x","t"," ","a","n","d"," ","r","e","f","i","n","e"," ",
        "i","t"," ","t","o"," ","a","d","d"," ","m","i","s","s","i","n","g",
        " ","p","u","n","c","t","u","a","t","i","o","n",","," ","r","e","s",
        "o","l","v","e"," ","t","y","p","o","s",","," ","a","d","d"," ","p",
        "a","r","a","g","r","a","p","h"," ","s","p","a","c","i","n","g",",",
        " ","a","n","d"," ","g","e","n","e","r","a","l","l","y"," ","e","n",
        "h","a","n","c","e"," ","t","h","e"," ","p","r","e","s","e","n","t",
        "a","t","i","o","n"," ","o","f"," ","t","h","e"," ","t","e","x","t",
        " ","w","h","i","l","e"," ","p","r","e","s","e","r","v","i","n","g",
        " ","t","h","e"," ","o","r","i","g","i","n","a","l"," ","m","e","a",
        "n","i","n","g",".">>

\* concatenate_prompts: final_instruction
final_instruction ==
  <<"\n","A","p","p","l","y"," ","A","L","L"," ","o","f"," ","t","h","e"," ",
        "a","b","o","v","e"," ","t","r","a","n","s","f","o","r","m","a","t",
        "i","o","n","s"," ","t","o"," ","t","h","e"," ","u","s","e","r","'",
        "s"," ","i","n","p","u","t"," ","t","e","x","t",".">>

\* concatenate_prompts: the separator of "\n\n".join
Separator == <<"\n", "\n">>

(***************************************************************************)
(* Prompt definition documents: a dict is a sequence of [id, data] pairs   *)
(* in insertion order, data a function from the keys present to values.    *)
(***************************************************************************)
EntryBasicCleanup ==
  [id |-> <<"b","a","s","i","c","_","c","l","e","a","n","u","p">>,
   data |->
    [name |-> <<"B","a","s","i","c"," ","C","l","e","a","n","u","p">>,
     description |-> <<"T","r","a","n","s","f","o","r","m","s"," ","t","e","x","t"," ","u","s",
              "i","n","g"," ","b","a","s","i","c"," ","c","l","e","a","n","u","p",
              " ","s","t","y","l","e"," ","o","r"," ","f","o","r","m","a","t">>,
     prompt |-> DefaultPromptText,
     requires_json |-> FALSE]]

EntryFormalEmail ==
  [id |-> <<"f","o","r","m","a","l","_","e","m","a","i","l">>,
   data |->
    [name |-> <<"F","o","r","m","a","l"," ","E","m","a","i","l">>,
     description |-> <<"R","e","w","r","i","t","e","s"," ","t","e","x","t"," ","a","s"," ","a",
              " ","f","o","r","m","a","l"," ","e","m","a","i","l">>,
     prompt |-> <<"M","a","k","e"," ","i","t"," ","f","o","r","m","a","l",".">>,
     requires_json |-> FALSE]]

EntryCasualTone ==
  [id |-> <<"c","a","s","u","a","l","_","t","o","n","e">>,
   data |->
    [name |-> <<"C","a","s","u","a","l"," ","T","o","n","e">>,
     description |-> <<"M","a","k","e","s"," ","t","h","e"," ","t","o","n","e"," ","c","a","s",
              "u","a","l">>,
     prompt |-> <<"M","a","k","e"," ","i","t"," ","c","a","s","u","a","l",".">>,
     requires_json |-> FALSE]]

EntryHaiku ==
  [id |-> <<"h","a","i","k","u">>,
   data |->
    [name |-> <<"h","a","i","k","u">>,
     description |-> <<"S","h","o","r","t"," ","v","e","r","s","e">>,
     prompt |-> <<"W","r","i","t","e"," ","a"," ","h","a","i","k","u",".">>,
     requires_json |-> FALSE]]

EntryDraft ==
  [id |-> <<"d","r","a","f","t">>,
   data |->
    [description |-> <<"R","o","u","g","h"," ","c","u","t">>,
     prompt |-> <<>>,
     requires_json |-> FALSE]]

EntryBlogPost ==
  [id |-> <<"b","l","o","g","_","p","o","s","t">>,
   data |->
    [name |-> <<"B","l","o","g"," ","P","o","s","t">>,
     description |-> <<"T","u","r","n","s"," ","t","e","x","t"," ","i","n","t","o"," ","a"," ",
              "p","o","s","t">>,
     prompt |-> <<"W","r","i","t","e"," ","a"," ","b","l","o","g"," ","p","o","s","t",".">>,
     requires_json |-> FALSE]]

EntryCodeComments ==
  [id |-> <<"c","o","d","e","_","c","o","m","m","e","n","t","s">>,
   data |->
    [name |-> <<"C","o","d","e"," ","C","o","m","m","e","n","t","s">>,
     description |-> <<"E","x","p","l","a","i","n","s"," ","s","o","f","t","w","a","r","e">>,
     prompt |-> <<"A","d","d"," ","c","o","m","m","e","n","t","s",".">>,
     requires_json |-> FALSE]]

EntryAcademicPaper ==
  [id |-> <<"a","c","a","d","e","m","i","c","_","p","a","p","e","r">>,
   data |->
    [name |-> <<"A","c","a","d","e","m","i","c"," ","P","a","p","e","r">>,
     description |-> <<"S","c","h","o","l","a","r","l","y"," ","r","e","g","i","s","t","e","r">>,
     prompt |-> <<"U","s","e"," ","a","c","a","d","e","m","i","c"," ","s","t","y","l","e",
              ".">>,
     requires_json |-> FALSE]]

EntryPoem ==
  [id |-> <<"p","o","e","m">>,
   data |->
    [name |-> <<"P","o","e","m">>,
     description |-> <<"R","h","y","m","e","d"," ","l","i","n","e","s">>,
     prompt |-> <<"W","r","i","t","e"," ","a"," ","p","o","e","m",".">>,
     requires_json |-> FALSE]]

EntryMarkdownTable ==
  [id |-> <<"m","a","r","k","d","o","w","n","_","t","a","b","l","e">>,
   data |->
    [name |-> <<"M","a","r","k","d","o","w","n"," ","T","a","b","l","e">>,
     description |-> <<"C","o","n","v","e","r","t"," ","r","o","w","s"," ","t","o"," ","a"," ",
              "t","a","b","l","e">>,
     prompt |-> <<"M","a","k","e"," ","a"," ","t","a","b","l","e",".">>,
     requires_json |-> FALSE]]

EntrySummary ==
  [id |-> <<"s","u","m","m","a","r","y">>,
   data |->
    [name |-> <<"S","u","m","m","a","r","y">>,
     description |-> <<"S","h","o","r","t"," ","d","i","g","e","s","t">>,
     prompt |-> <<"S","u","m","m","a","r","i","z","e",".">>,
     requires_json |-> FALSE]]

EntryZuluTime ==
  [id |-> <<"z","u","l","u","_","t","i","m","e">>,
   data |->
    [name |-> <<"Z","u","l","u"," ","T","i","m","e">>,
     description |-> <<"U","s","e","s"," ","U","T","C">>,
     prompt |-> <<"U","s","e"," ","U","T","C",".">>,
     requires_json |-> FALSE]]

EntryStatusUpdate ==
  [id |-> <<"s","t","a","t","u","s","_","u","p","d","a","t","e">>,
   data |->
    [name |-> <<"S","t","a","t","u","s"," ","U","p","d","a","t","e">>,
     description |-> <<"W","e","e","k","l","y"," ","r","e","p","o","r","t">>,
     prompt |-> <<"W","r","i","t","e"," ","a"," ","s","t","a","t","u","s"," ","u","p","d",
              "a","t","e",".">>,
     requires_json |-> FALSE]]

EntryBulletPoints ==
  [id |-> <<"b","u","l","l","e","t","_","p","o","i","n","t","s">>,
   data |->
    [name |-> <<"B","u","l","l","e","t"," ","P","o","i","n","t","s">>,
     description |-> <<"L","i","s","t"," ","f","o","r","m">>,
     prompt |-> <<"U","s","e"," ","b","u","l","l","e","t","s",".">>,
     requires_json |-> FALSE]]

AllEntries ==
  <<EntryBasicCleanup,
    EntryFormalEmail,
    EntryCasualTone,
    EntryHaiku,
    EntryDraft,
    EntryBlogPost,
    EntryCodeComments,
    EntryAcademicPaper,
    EntryPoem,
    EntryMarkdownTable,
    EntrySummary,
    EntryZuluTime,
    EntryStatusUpdate,
    EntryBulletPoints>>

\* categorize_prompts: the if/elif chain, in its order.
CategoryRules ==
  <<[category |-> "General",
     words |-> <<<<"c","l","e","a","n","u","p">>,
       <<"e","x","t","r","a","c","t">>,
       <<"a","n","o","n","y","m","i","z","a","t","i","o","n">>,
       <<"b","u","l","l","e","t">>,
       <<"s","u","m","m","a","r","y">>>>],
    [category |-> "Professional",
     words |-> <<<<"e","m","a","i","l">>,
       <<"l","e","t","t","e","r">>,
       <<"m","i","n","u","t","e","s">>,
       <<"d","o","c","u","m","e","n","t","a","t","i","o","n">>,
       <<"s","t","a","t","u","s">>,
       <<"r","e","s","p","o","n","d","e","r">>>>],
    [category |-> "Academic",
     words |-> <<<<"a","c","a","d","e","m","i","c">>,
       <<"s","c","i","e","n","t","i","f","i","c">>,
       <<"p","a","p","e","r">>>>],
    [category |-> "Social Media",
     words |-> <<<<"b","l","o","g">>,
       <<"s","o","c","i","a","l">>,
       <<"m","e","d","i","a">>>>],
    [category |-> "Creative",
     words |-> <<<<"p","o","e","t","r","y">>,
       <<"p","o","e","m">>,
       <<"s","h","a","k","e","s","p","e","a","r","e">>,
       <<"t","o","l","k","i","e","n">>,
       <<"c","r","e","a","t","i","v","e">>>>],
    [category |-> "Technical",
     words |-> <<<<"c","o","d","e">>,
       <<"t","e","c","h","n","i","c","a","l">>,
       <<"d","e","v","e","l","o","p","m","e","n","t">>,
       <<"s","o","f","t","w","a","r","e">>>>],
    [category |-> "Format Conversion",
     words |-> <<<<"f","o","r","m","a","t">>,
       <<"c","o","n","v","e","r","t">>,
       <<"t","r","a","n","s","f","o","r","m">>>>],
    [category |-> "Style",
     words |-> <<<<"t","o","n","e">>,
       <<"s","t","y","l","e">>,
       <<"f","o","r","m","a","l">>,
       <<"c","a","s","u","a","l">>>>],
    [category |-> "Prompting",
     words |-> <<<<"p","r","o","m","p","t">>,
       <<"c","h","a","t","g","p","t">>,
       <<"a","i">>>>]>>

\* categorize_prompts: the keys of `categories`, in dict order.
CategoryNames ==
  <<"General", "Format Conversion", "Style", "Professional", "Academic",
    "Creative", "Technical", "Social Media", "Prompting", "Other">>
(***************************************************************************)
(* prompt_utils.py                                                         *)
(***************************************************************************)
HasId(prompts_data, prompt_id) ==
  \E i \in 1..Len(prompts_data) : prompts_data[i].id = prompt_id

get_prompt_by_id(prompt_id, prompts_data) ==
  IF HasId(prompts_data, prompt_id)
  THEN prompts_data[CHOOSE i \in 1..Len(prompts_data) :
                      prompts_data[i].id = prompt_id].data
  ELSE EmptyDict

get_prompt_text(prompt_id, prompts_data) ==
  Get(get_prompt_by_id(prompt_id, prompts_data), "prompt", <<>>)

get_default_prompt ==
  [name |-> <<"B","a","s","i","c"," ","C","l","e","a","n","u","p">>,
   prompt |-> DefaultPromptText,
   requires_json |-> FALSE]

\* The test of the loop body of filter_prompts, on the lowered search term.
FilterMatch(entry, term) ==
  \E name \in {lower(Get(entry.data, "name", <<>>))} :
    \E description \in {lower(Get(entry.data, "description", <<>>))} :
      \E prompt_id \in {lower(entry.id)} :
        \/ str_in(term, name)
        \/ str_in(term, description)
        \/ str_in(term, prompt_id)

RECURSIVE FilterLoop(_, _, _)
FilterLoop(prompts_data, term, filtered) ==
  IF prompts_data = <<>> THEN filtered
  ELSE FilterLoop(Tail(prompts_data), term,
                  IF FilterMatch(Head(prompts_data), term)
                  THEN Append(filtered, Head(prompts_data))
                  ELSE filtered)

\* A faulty variant of filter_prompts: the search term is not lowered.
filter_prompts_case_sensitive(prompts_data, search_term) ==
  IF search_term = <<>> THEN prompts_data
  ELSE FilterLoop(prompts_data, search_term, <<>>)

filter_prompts(prompts_data, search_term) ==
  IF search_term = <<>> THEN prompts_data
  ELSE Bind(lower(search_term),
            LAMBDA term : FilterLoop(prompts_data, term, <<>>))

get_prompt_names_and_ids(prompts_data) ==
  [i \in 1..Len(prompts_data) |->
     <<prompts_data[i].id, Get(prompts_data[i].data, "name", Unknown)>>]

(***************************************************************************)
(* ollama_api.py: concatenate_prompts                                      *)
(***************************************************************************)
\* sep.join(strs)
RECURSIVE Join(_, _)
Join(sep, strs) ==
  IF strs = <<>> THEN <<>>
  ELSE IF Len(strs) = 1 THEN strs[1]
  ELSE strs[1] \o sep \o Join(sep, Tail(strs))

\* A faulty variant of concatenate_prompts: one newline between two texts.
concatenate_prompts_single_newline(prompts) ==
  IF prompts = <<>> THEN <<>>
  ELSE Join(<<"\n">>, prompts) \o final_instruction

concatenate_prompts(prompts) ==
  IF prompts = <<>> THEN <<>>
  ELSE Join(Separator, prompts) \o final_instruction

(***************************************************************************)
(* app.py: categorize_prompts                                              *)
(***************************************************************************)
\* any(word in name or word in description for word in words)
AnyWord(words, name, description) ==
  \E w \in 1..Len(words) :
    str_in(words[w], name) \/ str_in(words[w], description)

\* The branch of the if/elif chain that an entry takes.
RECURSIVE CategoryFrom(_, _, _)
CategoryFrom(r, name, description) ==
  IF r > Len(CategoryRules) THEN "Other"
  ELSE IF AnyWord(CategoryRules[r].words, name, description)
       THEN CategoryRules[r].category
       ELSE CategoryFrom(r + 1, name, description)

CategoryOf(prompt_data) ==
  Bind(lower(Get(prompt_data, "name", <<>>)), LAMBDA name :
    Bind(lower(Get(prompt_data, "description", <<>>)), LAMBDA description :
      CategoryFrom(1, name, description)))

\* The first loop: each entry is appended to the list of its category.
RECURSIVE CategorizeLoop(_, _)
CategorizeLoop(prompts_data, categories) ==
  IF prompts_data = <<>> THEN categories
  ELSE LET e == Head(prompts_data)
           item == <<e.id, Get(e.data, "name", Unknown)>>
       IN Bind([categories EXCEPT ![CategoryOf(e.data)] = Append(@, item)],
               LAMBDA appended : CategorizeLoop(Tail(prompts_data), appended))

\* list.sort(key=lambda x: x[1]): stable, by the `<` of the keys.
RECURSIVE InsertByName(_, _)
InsertByName(item, sorted) ==
  IF sorted = <<>> THEN <<item>>
  ELSE IF str_lt(item[2], Head(sorted)[2])
       THEN <<item>> \o sorted
       ELSE <<Head(sorted)>> \o InsertByName(item, Tail(sorted))

\* A faulty variant of SortByName: the list is left as it was filled.
SortByNameUnsorted(items) == items

RECURSIVE SortByName(_)
SortByName(items) ==
  IF items = <<>> THEN <<>>
  ELSE Bind(SortByName(SubSeq(items, 1, Len(items) - 1)),
            LAMBDA sorted : InsertByName(items[Len(items)], sorted))

\* The result: category name -> list of (id, name); the key order of the
\* dict is CategoryNames.
categorize_prompts(prompts_data) ==
  Bind(CategorizeLoop(prompts_data, [c \in Range(CategoryNames) |-> <<>>]),
       LAMBDA filled : [c \in Range(CategoryNames) |-> SortByName(filled[c])])

(***************************************************************************)
(* Python and JSON values                                                  *)
(*                                                                         *)
(* A str that the code only stores, compares or formats is a sequence of   *)
(* pieces, "" the empty sequence and + the concatenation \o.  A value that *)
(* can be None or of another type carries its type.                        *)
(***************************************************************************)
None == [py |-> "NoneType"]

Str(s) == [py |-> "str", v |-> s]

PyList(items) == [py |-> "list", v |-> items]

PyDict(d) == [py |-> "dict", v |-> d]

PyInt(n) == [py |-> "int", v |-> n]

Return(value) == [kind |-> "return", value |-> value]

Raise(exc) == [kind |-> "raise", exc |-> exc]

\* What the endpoint answers: the response bodies of the model, with the
\* value json.loads gives for each; InvalidJson for a body that is not JSON.
InvalidJson == [py |-> "invalid"]

\* response.json(), as far as the parse goes.
json_loads(text) ==
  CASE text = "{\"response\":\"X\"}" -> PyDict([response |-> Str(<<"X">>)])
    [] text = "{}" -> PyDict(EmptyDict)
    [] text = "[]" -> PyList(<<>>)
    [] text = "{\"response\":null}" -> PyDict([response |-> None])
    [] text = "{\"error\":\"no such model\"}" ->
         PyDict([error |-> Str(<<"no such model">>)])
    [] text = "{\"models\":[{\"name\":\"llama3\"},{\"name\":\"mistral\"}]}" ->
         PyDict([models |-> PyList(<<PyDict([name |-> Str(<<"llama3">>)]),
                                     PyDict([name |-> Str(<<"mistral">>)])>>)])
    [] text = "{\"models\":[{\"name\":\"mistral\"}]}" ->
         PyDict([models |-> PyList(<<PyDict([name |-> Str(<<"mistral">>)])>>)])
    [] text = "{\"models\":[]}" -> PyDict([models |-> PyList(<<>>)])
    [] text = "{\"models\":[{\"size\":1}]}" ->
         PyDict([models |-> PyList(<<PyDict([size |-> PyInt(1)])>>)])
    [] text = "{\"models\":null}" -> PyDict([models |-> None])
    [] OTHER -> InvalidJson

(***************************************************************************)
(* ollama_api.py: OllamaAPI                                                *)
(*                                                                         *)
(* The outcome of one HTTP request is an input: a transport failure        *)
(* (requests.RequestException, with its text) or a response with           *)
(* status_code and text.  A body that is not JSON makes response.json()    *)
(* raise; that exception is a RequestException from requests 2.27 on and   *)
(* a plain ValueError before, and the repository pins no version, so the   *)
(* outcome says which (json_error_caught).                                 *)
(***************************************************************************)
TransportFailure(text) == [kind |-> "exception", text |-> text]

Response(status_code, text, json_error_caught) ==
  [kind |-> "response", status_code |-> status_code, text |-> text,
   json_error_caught |-> json_error_caught]

\* OllamaAPI.generate_text: the payload
generate_payload(model, prompt, system_prompt) ==
  LET payload == [model |-> model, prompt |-> prompt,
                  temperature |-> "0.7", stream |-> FALSE]
  IN IF system_prompt # <<>>
     THEN [model |-> payload.model, prompt |-> payload.prompt,
           temperature |-> payload.temperature, stream |-> payload.stream,
           system |-> system_prompt]
     ELSE payload

\* OllamaAPI.generate_text, given what requests.post does.
generate_text(outcome) ==
  IF outcome.kind = "exception"
  THEN Return(Str(<<"Failed to connect to Ollama API: ", outcome.text>>))
  ELSE IF outcome.status_code = 200
  THEN LET body == json_loads(outcome.text)
       IN IF body = InvalidJson
          THEN IF outcome.json_error_caught
               THEN Return(Str(<<"Failed to connect to Ollama API: ",
                                 "JSONDecodeError">>))
               ELSE Raise("ValueError")
          ELSE IF body.py # "dict" THEN Raise("AttributeError")
          ELSE Return(Get(body.v, "response", Str(<<>>)))
  ELSE Return(Str(<<"Failed to generate text. ", "Error: ",
                    ToString(outcome.status_code), " - ", outcome.text>>))

\* A faulty variant of check_connection: any 2xx status counts.
check_connection_any_2xx(outcome) ==
  IF outcome.kind = "exception" THEN Return(FALSE)
  ELSE Return(outcome.status_code \in 200..299)

\* OllamaAPI.check_connection, given what requests.get does.
check_connection(outcome) ==
  IF outcome.kind = "exception" THEN Return(FALSE)
  ELSE Return(outcome.status_code = 200)

\* OllamaAPI.list_models: [model["name"] for model in models]
RECURSIVE ModelNames(_, _)
ModelNames(models, names) ==
  IF models = <<>> THEN Return(names)
  ELSE LET model == Head(models)
       IN IF model.py # "dict" THEN Raise("TypeError")
          ELSE IF "name" \notin DOMAIN model.v THEN Raise("KeyError")
          ELSE ModelNames(Tail(models), Append(names, model.v.name))

\* OllamaAPI.list_models, given what requests.get does.
list_models(outcome) ==
  IF outcome.kind = "exception" THEN Return(<<>>)
  ELSE IF outcome.status_code = 200
  THEN LET body == json_loads(outcome.text)
       IN IF body = InvalidJson
          THEN IF outcome.json_error_caught THEN Return(<<>>)
               ELSE Raise("ValueError")
          ELSE IF body.py # "dict" THEN Raise("AttributeError")
          ELSE LET models == Get(body.v, "models", PyList(<<>>))
               IN \* `for model in None`
                  IF models.py # "list" THEN Raise("TypeError")
                  ELSE ModelNames(models.v, <<>>)
  ELSE Return(<<>>)

(***************************************************************************)
(* config.py                                                               *)
(*                                                                         *)
(* The module holds the dict DEFAULT_CONFIG; the preference file is        *)
(* absent, unparsable, or holds a dict (json.dump and json.load keep a     *)
(* dict of str, list and None as it is).  load_preferences returns the     *)
(* dict DEFAULT_CONFIG itself, not a copy, when it falls back to the       *)
(* defaults: `aliased` says that the dict returned is that object.         *)
(***************************************************************************)
basic_cleanup == EntryBasicCleanup.id

formal_email == EntryFormalEmail.id

\* DEFAULT_CONFIG as the module sets it at import.
BuiltinDefaults ==
  [model |-> Str(<<"llama3">>),
   download_path |-> <<"~/Desktop">>,
   last_used_transformations |-> <<basic_cleanup>>]

FileAbsent == [state |-> "absent"]

FileCorrupt == [state |-> "corrupt"]

FileWith(preferences) == [state |-> "ok", preferences |-> preferences]

\* The state of the module and of its file.
Config(file, default_config) == [file |-> file, DEFAULT_CONFIG |-> default_config]

save_preferences(cfg, preferences) ==
  Config(FileWith(preferences), cfg.DEFAULT_CONFIG)

load_preferences(cfg) ==
  IF cfg.file.state = "absent"
  THEN [cfg |-> save_preferences(cfg, cfg.DEFAULT_CONFIG),
        value |-> cfg.DEFAULT_CONFIG, aliased |-> TRUE]
  ELSE IF cfg.file.state = "ok"
  THEN [cfg |-> cfg, value |-> cfg.file.preferences, aliased |-> FALSE]
  ELSE [cfg |-> save_preferences(cfg, cfg.DEFAULT_CONFIG),
        value |-> cfg.DEFAULT_CONFIG, aliased |-> TRUE]

\* preferences[key] = value; save_preferences(preferences)
update_preference(cfg, key, value) ==
  LET loaded == load_preferences(cfg)
      preferences == [loaded.value EXCEPT ![key] = value]
      mutated == Config(loaded.cfg.file,
                        IF loaded.aliased THEN preferences
                        ELSE loaded.cfg.DEFAULT_CONFIG)
  IN save_preferences(mutated, preferences)

get_preference(cfg, key, default) ==
  LET loaded == load_preferences(cfg)
  IN [cfg |-> loaded.cfg, value |-> Get(loaded.value, key, default)]

(***************************************************************************)
(* utils.py, file_utils.py: what app.py uses of them                       *)
(***************************************************************************)
\* utils.get_desktop_path()
get_desktop_path == <<"~/Desktop">>

\* utils.generate_suggested_filename: the first words of the text, the
\* time of the call and the extension.
generate_suggested_filename(text, timestamp) ==
  <<"words_of:">> \o text \o <<"_", timestamp, ".txt">>

\* `if value:` on a str or None.
Truthy(value) == value.py = "str" /\ value.v # <<>>

(***************************************************************************)
(* app.py                                                                  *)
(*                                                                         *)
(* One run of the script is a function of st.session_state, the state of   *)
(* config.py, the values the widgets return (ui) and what the environment  *)
(* answers during the run (env).  A run is threaded through a record w:    *)
(*   ss       st.session_state                                             *)
(*   cfg      the state of config.py                                       *)
(*   log      what the run did, for the properties                         *)
(*   aborted  an exception left the script; the rest of the run is skipped *)
(***************************************************************************)
DefaultFilename == <<"transformed_text.txt">>

ConnectError ==
  <<"Cannot connect to Ollama API. Please ensure Ollama is installed and running.">>

\* The cap on the selection, main: `if len(selected_transformations) > 10`.
MaxSelected == 10

\* st.session_state with no key set; the values are those that
\* init_session_state sets without reading anything.
FreshSession ==
  [started |-> FALSE,
   input_text |-> <<>>,
   output_text |-> Str(<<>>),
   selected_transformations |-> <<>>,
   search_term |-> <<>>,
   ollama_model |-> None,
   download_path |-> <<>>,
   available_models |-> <<>>,
   prompts_data |-> <<>>,
   suggested_filename |-> DefaultFilename,
   ollama_error |-> None,
   transformation_success |-> FALSE,
   transformation_categories |-> EmptyDict]

EmptyLog ==
  [connected |-> FALSE,
   probes |-> 0,
   raised |-> None,
   warnings |-> {},
   errors |-> {},
   messages |-> {},
   transforms |-> <<>>,
   requests |-> <<>>,
   outputs |-> <<>>,
   presented |-> <<>>,
   saved |-> <<>>]

Warn(w, text) == [w EXCEPT !.log.warnings = @ \cup {text}]

Error(w, text) == [w EXCEPT !.log.errors = @ \cup {text}]

Success(w, text) == [w EXCEPT !.log.messages = @ \cup {text}]

\* An exception that nothing in the script catches.
Abort(w, exc) == [w EXCEPT !.aborted = TRUE, !.log.raised = Str(<<exc>>)]

\* prompt_utils.load_prompts, given the definition file.
load_prompts(prompts_file) ==
  IF prompts_file.state = "ok" THEN prompts_file.data ELSE <<>>

\* init_session_state: a key is set when it is not in st.session_state;
\* the first run sets them all.
init_session_state(w, prompts_file) ==
  IF w.ss.started THEN w
  ELSE Bind(load_preferences(w.cfg), LAMBDA l1 :
       Bind(load_preferences(l1.cfg), LAMBDA l2 :
       Bind(load_preferences(l2.cfg), LAMBDA l3 :
          [w EXCEPT
             !.cfg = l3.cfg,
             !.ss = [started |-> TRUE,
                     input_text |-> <<>>,
                     output_text |-> Str(<<>>),
                     selected_transformations |->
                       Get(l1.value, "last_used_transformations",
                           <<basic_cleanup>>),
                     search_term |-> <<>>,
                     ollama_model |-> Get(l2.value, "model", Str(<<"llama3">>)),
                     download_path |->
                       Get(l3.value, "download_path", get_desktop_path),
                     available_models |-> <<>>,
                     prompts_data |-> load_prompts(prompts_file),
                     suggested_filename |-> DefaultFilename,
                     ollama_error |-> None,
                     transformation_success |-> FALSE,
                     transformation_categories |-> EmptyDict]])))

\* A faulty variant of ResolveLoop: each text is put at the front of the
\* list.
RECURSIVE ResolveLoopReversed(_, _, _)
ResolveLoopReversed(selection, prompts_data, selected_prompts) ==
  IF selection = <<>> THEN selected_prompts
  ELSE Bind(get_prompt_text(Head(selection), prompts_data),
            LAMBDA prompt_text :
              ResolveLoopReversed(Tail(selection), prompts_data,
                                  IF prompt_text # <<>>
                                  THEN <<prompt_text>> \o selected_prompts
                                  ELSE selected_prompts))

\* transform_text: the loop over st.session_state.selected_transformations
RECURSIVE ResolveLoop(_, _, _)
ResolveLoop(selected_transformations, prompts_data, selected_prompts) ==
  IF selected_transformations = <<>> THEN selected_prompts
  ELSE Bind(get_prompt_text(Head(selected_transformations), prompts_data),
            LAMBDA prompt_text :
              Bind(IF prompt_text # <<>>
                   THEN Append(selected_prompts, prompt_text)
                   ELSE selected_prompts,
                   LAMBDA appended :
                     ResolveLoop(Tail(selected_transformations), prompts_data,
                                 appended)))

\* A faulty variant of ResolvePrompts: no default when nothing resolves.
ResolvePromptsNoDefault(selected_transformations, prompts_data) ==
  ResolveLoop(selected_transformations, prompts_data, <<>>)

\* transform_text: selected_prompts as handed to concatenate_prompts
ResolvePrompts(selected_transformations, prompts_data) ==
  Bind(ResolveLoop(selected_transformations, prompts_data, <<>>),
       LAMBDA selected_prompts :
         IF selected_prompts = <<>>
         THEN Append(selected_prompts, get_default_prompt.prompt)
         ELSE selected_prompts)

\* transform_text: the body of `try`, once generate_text has returned or
\* raised; `sent` is the run with the request made.
TransformOutcome(sent, selection, transformed_text, env) ==
  LET Except(v, exc) ==
        Error([v EXCEPT !.ss.ollama_error = Str(<<exc>>),
                        !.ss.transformation_success = FALSE],
              "Error transforming text")
  IN IF transformed_text.kind = "raise"
     THEN Except(sent, transformed_text.exc)
     ELSE Bind([sent EXCEPT !.ss.output_text = transformed_text.value,
                            !.log.outputs = Append(@, transformed_text.value)],
               LAMBDA stored :
                 \* generate_suggested_filename: text.split on None
                 IF transformed_text.value.py # "str"
                 THEN Except(stored, "AttributeError")
                 ELSE [stored EXCEPT
                         !.ss.suggested_filename =
                           generate_suggested_filename(
                             transformed_text.value.v, env.timestamp),
                         !.cfg = update_preference(
                                   stored.cfg, "last_used_transformations",
                                   selection),
                         !.ss.ollama_error = None,
                         !.ss.transformation_success = TRUE])

transform_text(w, env) ==
  IF w.ss.input_text = <<>>
  THEN Warn(w, "Please enter some text to transform.")
  ELSE
    Bind(ResolvePrompts(w.ss.selected_transformations, w.ss.prompts_data),
         LAMBDA selected_prompts :
    Bind(concatenate_prompts(selected_prompts), LAMBDA system_prompt :
    Bind(generate_payload(w.ss.ollama_model, w.ss.input_text, system_prompt),
         LAMBDA payload :
    Bind([w EXCEPT
            !.log.transforms =
              Append(@, [selection |-> w.ss.selected_transformations,
                         selected_prompts |-> selected_prompts,
                         system_prompt |-> system_prompt]),
            !.log.requests = Append(@, payload)],
         LAMBDA sent :
           TransformOutcome(sent, w.ss.selected_transformations,
                            generate_text(env.generate), env)))))

handle_file_upload(w, uploaded_file) ==
  IF uploaded_file.kind = "file"
  THEN [w EXCEPT !.ss.input_text = uploaded_file.text]
  ELSE Error(w, "Error reading file")

save_output_text(w, filename, env) ==
  IF ~Truthy(w.ss.output_text)
  THEN Warn(w, "No transformed text to save.")
  ELSE LET name == IF filename = <<>> THEN w.ss.suggested_filename
                   ELSE filename
       IN IF env.save_ok
          THEN Success([w EXCEPT !.log.saved =
                          Append(@, [path |-> w.ss.download_path,
                                     filename |-> name,
                                     text |-> w.ss.output_text.v])],
                       "Saved to")
          ELSE Error(w, "Error saving file")

\* A faulty variant of clear_all: the search term is reset as well.
clear_all_and_search(w) ==
  [w EXCEPT !.ss.input_text = <<>>,
            !.ss.output_text = Str(<<>>),
            !.ss.selected_transformations = <<basic_cleanup>>,
            !.ss.search_term = <<>>,
            !.ss.suggested_filename = DefaultFilename,
            !.ss.transformation_success = FALSE]

clear_all(w) ==
  [w EXCEPT !.ss.input_text = <<>>,
            !.ss.output_text = Str(<<>>),
            !.ss.selected_transformations = <<basic_cleanup>>,
            !.ss.suggested_filename = DefaultFilename,
            !.ss.transformation_success = FALSE]

check_ollama_connection(w, env) ==
  Bind([w EXCEPT !.log.probes = @ + 1], LAMBDA probed :
    IF check_connection(env.root).value
    THEN Bind(list_models(env.tags), LAMBDA listed :
           IF listed.kind = "raise" THEN Abort(probed, listed.exc)
           ELSE [probed EXCEPT
                   !.ss.available_models =
                     IF listed.value = <<>> THEN <<Str(<<"llama3">>)>>
                     ELSE listed.value,
                   !.ss.ollama_error = None,
                   !.log.connected = TRUE])
    ELSE [probed EXCEPT !.ss.ollama_error = Str(ConnectError),
                        !.log.connected = FALSE])

handle_clipboard_paste(w, env) ==
  IF Truthy(env.clipboard)
  THEN [w EXCEPT !.ss.input_text = env.clipboard.v]
  ELSE Warn(w, "Could not paste from clipboard.")

handle_clipboard_copy(w, env) ==
  IF Truthy(w.ss.output_text)
  THEN IF env.copy_ok THEN Success(w, "Copied to clipboard!")
       ELSE Warn(w, "Could not copy to clipboard.")
  ELSE Warn(w, "No text to copy.")

(***************************************************************************)
(* app.py: main, section by section.  A widget returns what the user did   *)
(* to it, or the value the script passes when the user did nothing:        *)
(*   a button is pressed or not; a disabled button is never pressed;       *)
(*   a text input returns the edit, else its `value`;                      *)
(*   the selectbox returns the option picked, else the option at `index`,  *)
(*   None when there are no options;                                       *)
(*   a checkbox returns its `value` unless the user toggled it.            *)
(***************************************************************************)
\* Left column: the uploader, the two buttons and the text area.
InputColumn(w, ui, env) ==
  Bind(IF ui.uploaded_file.kind # "none"
       THEN handle_file_upload(w, ui.uploaded_file) ELSE w,
       LAMBDA uploaded :
  Bind(IF ui.paste THEN handle_clipboard_paste(uploaded, env) ELSE uploaded,
       LAMBDA pasted :
  Bind(IF ui.clear_input THEN [pasted EXCEPT !.ss.input_text = <<>>]
       ELSE pasted,
       LAMBDA cleared :
         [cleared EXCEPT !.ss.input_text =
            IF ui.input_edit # None THEN ui.input_edit.v ELSE @])))

\* Middle column: the model selectbox.
ModelSelection(w, ui) ==
  LET model_options == w.ss.available_models
      index == IF w.ss.ollama_model \in Range(model_options)
               THEN IndexIn(w.ss.ollama_model, model_options) ELSE 1
  IN Bind(IF model_options = <<>> THEN None
          ELSE IF ui.picked \in Range(model_options) THEN ui.picked
          ELSE model_options[index],
          LAMBDA selected_model :
            IF selected_model # w.ss.ollama_model
            THEN [w EXCEPT !.ss.ollama_model = selected_model,
                           !.cfg = update_preference(w.cfg, "model",
                                                     selected_model)]
            ELSE w)

\* A faulty variant of TransformButton: the press counts whatever the
\* probe of this run said.
TransformButtonUngated(w, ui, env) ==
  Bind(IF ui.transform THEN transform_text(w, env) ELSE w,
       LAMBDA pressed :
         IF pressed.ss.transformation_success
         THEN Success([pressed EXCEPT !.ss.transformation_success = FALSE],
                      "Text transformed successfully!")
         ELSE pressed)

\* Middle column: the transform button and the success message.
TransformButton(w, ui, env) ==
  Bind(IF ui.transform /\ w.log.connected THEN transform_text(w, env) ELSE w,
       LAMBDA pressed :
         IF pressed.ss.transformation_success
         THEN Success([pressed EXCEPT !.ss.transformation_success = FALSE],
                      "Text transformed successfully!")
         ELSE pressed)

\* Middle column: the search box.
SearchBox(w, ui) ==
  IF ui.search_edit # None /\ ui.search_edit.v # w.ss.search_term
  THEN [w EXCEPT !.ss.search_term = ui.search_edit.v]
  ELSE w

\* The (id, name) pairs in the order the checkboxes are created: tab by
\* tab when not searching, the filtered prompts in dict order otherwise.
RECURSIVE TabsFrom(_, _)
TabsFrom(categories, c) ==
  IF c > Len(CategoryNames) THEN <<>>
  ELSE categories[CategoryNames[c]] \o TabsFrom(categories, c + 1)

\* The loop over the checkboxes: the ids of those that return True.
RECURSIVE CheckedLoop(_, _, _, _)
CheckedLoop(options, stored, toggled, selected_transformations) ==
  IF options = <<>> THEN selected_transformations
  ELSE LET prompt_id == Head(options)[1]
           is_selected == prompt_id \in Range(stored)
           selected == (is_selected /\ prompt_id \notin toggled)
                         \/ (~is_selected /\ prompt_id \in toggled)
       IN CheckedLoop(Tail(options), stored, toggled,
                      IF selected
                      THEN Append(selected_transformations, prompt_id)
                      ELSE selected_transformations)

\* Middle column: the checkboxes, given `categories` when not searching.
CheckboxOptions(w, categories) ==
  IF w.ss.search_term = <<>> THEN TabsFrom(categories, 1)
  ELSE get_prompt_names_and_ids(
         filter_prompts(w.ss.prompts_data, w.ss.search_term))

\* A faulty variant of LimitSelection: the selection is stored as
\* presented.
LimitSelectionUncapped(w, selected_transformations) ==
  [w EXCEPT !.log.presented = selected_transformations,
            !.ss.selected_transformations = selected_transformations]

\* Middle column: the limit and the update of the selection.
LimitSelection(w, selected_transformations) ==
  Bind([w EXCEPT !.log.presented = selected_transformations], LAMBDA shown :
    IF Len(selected_transformations) > MaxSelected
    THEN [Warn(shown, "You can select up to 10 transformations.")
            EXCEPT !.ss.selected_transformations =
                     SubSeq(selected_transformations, 1, MaxSelected)]
    ELSE [shown EXCEPT
            !.ss.selected_transformations = selected_transformations])

\* Middle column: the checkboxes and the limit.
TransformationSelector(w, ui) ==
  Bind(IF w.ss.search_term # <<>> THEN EmptyDict
       ELSE IF w.ss.transformation_categories = EmptyDict
       THEN categorize_prompts(w.ss.prompts_data)
       ELSE w.ss.transformation_categories,
       LAMBDA categories :
  Bind(IF w.ss.search_term = <<>>
       THEN [w EXCEPT !.ss.transformation_categories = categories]
       ELSE w,
       LAMBDA cached :
  Bind(CheckedLoop(CheckboxOptions(w, categories),
                   w.ss.selected_transformations, ui.toggled, <<>>),
       LAMBDA selected_transformations :
         LimitSelection(cached, selected_transformations))))

\* Right column: the download section.
DownloadSection(w, ui, env) ==
  LET filename == IF ui.filename_edit # None THEN ui.filename_edit.v
                  ELSE w.ss.suggested_filename
      download_path == IF ui.path_edit # None THEN ui.path_edit.v
                       ELSE w.ss.download_path
  IN Bind(IF download_path # w.ss.download_path
          THEN [w EXCEPT
                  !.ss.download_path = download_path,
                  !.cfg = update_preference(w.cfg, "download_path",
                                            download_path)]
          ELSE w,
          LAMBDA moved :
            IF ui.download THEN save_output_text(moved, filename, env)
            ELSE moved)

\* Right column: the text area, the buttons and the download section.
OutputColumn(w, ui, env) ==
  Bind([w EXCEPT !.ss.output_text =
          IF ui.output_edit # None THEN ui.output_edit ELSE @],
       LAMBDA edited :
  Bind(IF ui.copy THEN handle_clipboard_copy(edited, env) ELSE edited,
       LAMBDA copied :
  Bind(IF ui.clear_output THEN [copied EXCEPT !.ss.output_text = Str(<<>>)]
       ELSE copied,
       LAMBDA cleared : DownloadSection(cleared, ui, env))))

\* The button under the columns.
ClearAllButton(w, ui) == IF ui.clear_all THEN clear_all(w) ELSE w

\* main: the probe, then st.error with the advisory it left, if any.
ConnectivityCheck(w, env) ==
  Bind(check_ollama_connection(w, env), LAMBDA checked :
    IF ~checked.aborted /\ checked.ss.ollama_error # None
    THEN Error(checked, checked.ss.ollama_error.v[1])
    ELSE checked)

\* The sections of main after init_session_state, in order.
Section(n, w, ui, env) ==
  CASE n = 1 -> ConnectivityCheck(w, env)
    [] n = 2 -> InputColumn(w, ui, env)
    [] n = 3 -> ModelSelection(w, ui)
    [] n = 4 -> TransformButton(w, ui, env)
    [] n = 5 -> SearchBox(w, ui)
    [] n = 6 -> TransformationSelector(w, ui)
    [] n = 7 -> OutputColumn(w, ui, env)
    [] n = 8 -> ClearAllButton(w, ui)

\* The script from section n on; an exception that leaves a section ends
\* the run.
RECURSIVE MainFrom(_, _, _, _)
MainFrom(n, w, ui, env) ==
  IF n > 8 \/ w.aborted THEN w
  ELSE Bind(Section(n, w, ui, env),
            LAMBDA done : MainFrom(n + 1, done, ui, env))

\* One run of the script.
main(ss, cfg, prompts_file, ui, env) ==
  Bind(init_session_state([ss |-> ss, cfg |-> cfg, log |-> EmptyLog,
                           aborted |-> FALSE], prompts_file),
       LAMBDA initialised : MainFrom(1, initialised, ui, env))

(***************************************************************************)
(* Bounds                                                                  *)
(***************************************************************************)
\* Calls of concatenate_prompts take at most this many texts.
MaxPrompts == 3

\* Catalogs given to filter_prompts and categorize_prompts list at most
\* this many entries in an arbitrary order.
MaxCatLen == 2

\* A behaviour of the application makes at most this many runs of the
\* script.
MaxRenders == 3

\* The preference file is lost or corrupted from outside at most this
\* many times.
MaxFaults == 1

\* The largest prompt definition file lists this many prompts.
NCatalog == 12

VARIABLES
  call,            \* the library call in progress or the last one made
  config_file,     \* config.py: the file CONFIG_FILE
  DEFAULT_CONFIG,  \* config.py: the module's dict DEFAULT_CONFIG
  prompts_file,    \* the prompt definition file default_prompts.json
  session,         \* app.py: st.session_state
  render,          \* the last run of the script: what it did
  renders,         \* the number of runs made
  faults           \* the number of times the file was lost or corrupted

cfgVars == <<config_file, DEFAULT_CONFIG>>

appVars == <<prompts_file, session, render, renders>>

libVars == <<call, faults>>

vars == <<call, config_file, DEFAULT_CONFIG, prompts_file, session, render,
          renders, faults>>

NoRender == [event |-> "none", aborted |-> FALSE, log |-> EmptyLog]

\* The module config as imported, before any call.
InitConfig ==
  /\ config_file \in {FileAbsent, FileCorrupt, FileWith(BuiltinDefaults)}
  /\ DEFAULT_CONFIG = BuiltinDefaults

CurrentConfig == Config(config_file, DEFAULT_CONFIG)

SetConfig(cfg) ==
  /\ config_file' = cfg.file
  /\ DEFAULT_CONFIG' = cfg.DEFAULT_CONFIG

(***************************************************************************)
(* Inputs of the library calls                                             *)
(***************************************************************************)
TextPool ==
  {EntryFormalEmail.data.prompt, DefaultPromptText, <<"a">>, <<>>}

SeqsUpTo(S, n) == UNION {[1..k -> S] : k \in 0..n}

IsInjective(s) == \A i, j \in 1..Len(s) : s[i] = s[j] => i = j

\* Dicts: no id twice.
LibCatalogs ==
  {c \in SeqsUpTo(Range(AllEntries), MaxCatLen) : IsInjective(c)}
    \cup {SubSeq(AllEntries, 1, n) : n \in 0..Len(AllEntries)}

SearchTerms ==
  {<<>>, <<"E","M","A","I","L">>, <<"e","m","a","i","l">>, <<"a","i">>,
   <<"F","o","r","m","a","l">>, <<"_">>, <<"R","o","u","g","h">>,
   <<"c"," ","c">>, <<"z","z">>}

\* A library call: its arguments are drawn when the call is made, the
\* function is applied in one step.
ConcatenateCalls ==
  {[op |-> "concatenate_prompts", done |-> FALSE, prompts |-> prompts] :
     prompts \in SeqsUpTo(TextPool, MaxPrompts)}

FilterCalls ==
  {[op |-> "filter_prompts", done |-> FALSE, prompts_data |-> prompts_data,
    search_term |-> search_term] :
     prompts_data \in LibCatalogs, search_term \in SearchTerms}

CategorizeCalls ==
  {[op |-> "categorize_prompts", done |-> FALSE,
    prompts_data |-> prompts_data] : prompts_data \in LibCatalogs}

StatusCodes == {200, 201, 204, 404, 500}

GenerateBodies ==
  {"{\"response\":\"X\"}", "{}", "[]", "Not Found", "{\"response\":null}",
   "{\"error\":\"no such model\"}"}

TagsBodies ==
  {"{\"models\":[{\"name\":\"llama3\"},{\"name\":\"mistral\"}]}",
   "{\"models\":[{\"name\":\"mistral\"}]}", "{\"models\":[]}", "{}",
   "{\"models\":[{\"size\":1}]}", "{\"models\":null}", "[]", "Not Found"}

RootBodies == {"Ollama is running", "Not Found"}

TransportErrors == {"Connection refused", "Read timed out"}

Outcomes(bodies) ==
  {TransportFailure(text) : text \in TransportErrors}
    \cup {Response(status_code, text, caught) :
            status_code \in StatusCodes, text \in bodies, caught \in BOOLEAN}

GenerateCalls ==
  {[op |-> "generate_text", done |-> FALSE, outcome |-> outcome] :
     outcome \in Outcomes(GenerateBodies)}

CheckConnectionCalls ==
  {[op |-> "check_connection", done |-> FALSE, outcome |-> outcome] :
     outcome \in Outcomes(RootBodies)}

ListModelsCalls ==
  {[op |-> "list_models", done |-> FALSE, outcome |-> outcome] :
     outcome \in Outcomes(TagsBodies)}

\* transform_text is called in a session that holds a catalog, a selection
\* and an input text; the selection is any list of identifiers, known to
\* the catalog or not.
SelectionPool ==
  {EntryBasicCleanup.id, EntryFormalEmail.id, EntryDraft.id, EntryHaiku.id}

TransformCatalogs ==
  {<<>>, <<EntryDraft>>, <<EntryBasicCleanup, EntryFormalEmail>>,
   <<EntryFormalEmail, EntryDraft, EntryBasicCleanup>>}

TransformOutcomes ==
  {TransportFailure("Connection refused"),
   Response(200, "{\"response\":\"X\"}", FALSE),
   Response(200, "{\"response\":null}", FALSE),
   Response(200, "[]", FALSE),
   Response(500, "{\"error\":\"no such model\"}", FALSE)}

TransformCalls ==
  {[op |-> "transform_text", done |-> FALSE, prompts_data |-> prompts_data,
    selected_transformations |-> selected_transformations,
    input_text |-> input_text, outcome |-> outcome, earlier |-> earlier] :
     prompts_data \in TransformCatalogs,
     selected_transformations \in SeqsUpTo(SelectionPool, MaxPrompts),
     input_text \in {<<>>, <<"hello">>},
     outcome \in TransformOutcomes,
     earlier \in BOOLEAN}

\* st.session_state of a session under way.
SessionWith(prompts_data, selected_transformations, input_text) ==
  [FreshSession EXCEPT
     !.started = TRUE,
     !.prompts_data = prompts_data,
     !.selected_transformations = selected_transformations,
     !.input_text = input_text,
     !.ollama_model = Str(<<"llama3">>),
     !.download_path = get_desktop_path]

\* clear_all is called in a session under way, whatever it holds.
ClearAllSessions ==
  {[SessionWith(prompts_data, selected_transformations, input_text) EXCEPT
      !.output_text = output_text,
      !.search_term = search_term,
      !.suggested_filename = suggested_filename,
      !.transformation_success = transformation_success,
      !.ollama_model = ollama_model,
      !.download_path = download_path] :
     prompts_data \in {<<>>, <<EntryBasicCleanup, EntryFormalEmail>>},
     selected_transformations
       \in {<<>>, <<EntryBasicCleanup.id>>,
            <<EntryFormalEmail.id, EntryDraft.id>>},
     input_text \in {<<>>, <<"hello">>},
     output_text \in {Str(<<>>), Str(<<"X">>), None},
     search_term \in {<<>>, <<"E","M","A","I","L">>},
     suggested_filename \in {DefaultFilename, <<"words_of:", "X", ".txt">>},
     transformation_success \in BOOLEAN,
     ollama_model \in {Str(<<"llama3">>), Str(<<"mistral">>), None},
     download_path \in {<<"~/Desktop">>, <<"/tmp">>}}

ClearAllCalls ==
  {[op |-> "clear_all", done |-> FALSE, before |-> before] :
     before \in ClearAllSessions}

\* The preference file when a function of app.py is called.
LibConfigFiles ==
  {FileAbsent, FileCorrupt,
   FileWith([model |-> Str(<<"mistral">>),
             download_path |-> <<"/tmp">>,
             last_used_transformations |-> <<EntryFormalEmail.id>>])}

\* The session of a call of transform_text: a new one, or one that holds
\* what an earlier transformation left.
TransformSession(c) ==
  IF c.earlier
  THEN [SessionWith(c.prompts_data, c.selected_transformations,
                    c.input_text) EXCEPT
          !.output_text = Str(<<"old">>),
          !.suggested_filename = <<"words_of:", "old", ".txt">>,
          !.ollama_error = Str(<<"ValueError">>),
          !.ollama_model = Str(<<"mistral">>)]
  ELSE SessionWith(c.prompts_data, c.selected_transformations, c.input_text)

\* The application before its first run, for the specifications that
\* call the library only.
AppIdle ==
  /\ prompts_file = [state |-> "absent"]
  /\ session = FreshSession
  /\ render = NoRender
  /\ renders = 0
  /\ faults = 0

\* The calls that leave the preference store alone.
LibraryCalls ==
  ConcatenateCalls \cup FilterCalls \cup CategorizeCalls
    \cup GenerateCalls \cup CheckConnectionCalls \cup ListModelsCalls

InitLib ==
  /\ AppIdle
  /\ DEFAULT_CONFIG = BuiltinDefaults
  /\ \/ /\ config_file = FileAbsent
        /\ call \in LibraryCalls
     \/ /\ config_file \in LibConfigFiles
        /\ call \in TransformCalls \cup ClearAllCalls

Pending(op) == call.op = op /\ ~call.done

Returned(op) == call.op = op /\ call.done

RunConcatenate ==
  /\ UNCHANGED <<cfgVars, appVars, faults>>
  /\ Pending("concatenate_prompts")
  /\ call' = [op |-> call.op, done |-> TRUE, prompts |-> call.prompts,
              result |-> concatenate_prompts(call.prompts)]

RunFilter ==
  /\ UNCHANGED <<cfgVars, appVars, faults>>
  /\ Pending("filter_prompts")
  /\ call' = [op |-> call.op, done |-> TRUE,
              prompts_data |-> call.prompts_data,
              search_term |-> call.search_term,
              result |-> filter_prompts(call.prompts_data, call.search_term)]

RunCategorize ==
  /\ UNCHANGED <<cfgVars, appVars, faults>>
  /\ Pending("categorize_prompts")
  /\ call' = [op |-> call.op, done |-> TRUE,
              prompts_data |-> call.prompts_data,
              result |-> categorize_prompts(call.prompts_data)]

RunGenerateText ==
  /\ UNCHANGED <<cfgVars, appVars, faults>>
  /\ Pending("generate_text")
  /\ call' = [op |-> call.op, done |-> TRUE, outcome |-> call.outcome,
              result |-> generate_text(call.outcome)]

RunCheckConnection ==
  /\ UNCHANGED <<cfgVars, appVars, faults>>
  /\ Pending("check_connection")
  /\ call' = [op |-> call.op, done |-> TRUE, outcome |-> call.outcome,
              result |-> check_connection(call.outcome)]

RunListModels ==
  /\ UNCHANGED <<cfgVars, appVars, faults>>
  /\ Pending("list_models")
  /\ call' = [op |-> call.op, done |-> TRUE, outcome |-> call.outcome,
              result |-> list_models(call.outcome)]

RunTransformText ==
  /\ Pending("transform_text")
  /\ \E w \in {transform_text(
                  [ss |-> TransformSession(call),
                   cfg |-> CurrentConfig, log |-> EmptyLog,
                   aborted |-> FALSE],
                  [generate |-> call.outcome,
                   timestamp |-> "20240101_000000"])} :
       /\ session' = w.ss
       /\ SetConfig(w.cfg)
       /\ render' = [event |-> "transform_text", aborted |-> w.aborted,
                     log |-> w.log]
  /\ call' = [op |-> call.op, done |-> TRUE,
              prompts_data |-> call.prompts_data,
              selected_transformations |-> call.selected_transformations,
              input_text |-> call.input_text, outcome |-> call.outcome,
              earlier |-> call.earlier, config_before |-> CurrentConfig]
  /\ UNCHANGED <<prompts_file, renders, faults>>

RunClearAll ==
  /\ Pending("clear_all")
  /\ \E w \in {clear_all([ss |-> call.before, cfg |-> CurrentConfig,
                           log |-> EmptyLog, aborted |-> FALSE])} :
       /\ session' = w.ss
       /\ SetConfig(w.cfg)
       /\ render' = [event |-> "clear_all", aborted |-> w.aborted,
                     log |-> w.log]
  /\ call' = [op |-> call.op, done |-> TRUE, before |-> call.before,
              config_before |-> CurrentConfig]
  /\ UNCHANGED <<prompts_file, renders, faults>>

NextLib ==
  \/ RunConcatenate
  \/ RunFilter
  \/ RunCategorize
  \/ RunGenerateText
  \/ RunCheckConnection
  \/ RunListModels
  \/ RunTransformText
  \/ RunClearAll

SpecLib == InitLib /\ [][NextLib]_vars


(***************************************************************************)
(* The preference store called directly, with the file lost or corrupted   *)
(* from outside between calls                                              *)
(***************************************************************************)
PreferenceValues ==
  [model |-> {Str(<<"llama3">>), Str(<<"mistral">>)},
   download_path |-> {<<"~/Desktop">>, <<"/tmp">>},
   last_used_transformations |-> {<<basic_cleanup>>,
                                  <<formal_email, basic_cleanup>>}]

InitPrefs == InitConfig /\ AppIdle /\ call = [op |-> "none"]

LoadPreferences ==
  LET loaded == load_preferences(CurrentConfig)
  IN /\ UNCHANGED <<appVars, faults>>
     /\ SetConfig(loaded.cfg)
     /\ call' = [op |-> "load_preferences", found |-> config_file.state,
                 loaded |-> loaded.value, written |-> loaded.cfg.file]

UpdatePreference ==
  \E key \in DOMAIN PreferenceValues :
    \E value \in PreferenceValues[key] :
      /\ UNCHANGED <<appVars, faults>>
      /\ SetConfig(update_preference(CurrentConfig, key, value))
      /\ call' = [op |-> "update_preference", found |-> config_file.state,
                  loaded |-> load_preferences(CurrentConfig).value,
                  key |-> key, value |-> value]

GetPreference ==
  \E key \in DOMAIN PreferenceValues :
    LET got == get_preference(CurrentConfig, key, None)
    IN /\ UNCHANGED <<appVars, faults>>
       /\ SetConfig(got.cfg)
       /\ call' = [op |-> "get_preference", found |-> config_file.state,
                   loaded |-> load_preferences(CurrentConfig).value,
                   key |-> key, result |-> got.value]

\* From outside the program: the file is deleted.
FileLost ==
  /\ faults < MaxFaults
  /\ config_file.state # "absent"
  /\ config_file' = FileAbsent
  /\ faults' = faults + 1
  /\ UNCHANGED <<DEFAULT_CONFIG, call, appVars>>

\* From outside the program: the file is overwritten with something that
\* is not JSON.
FileCorrupted ==
  /\ faults < MaxFaults
  /\ config_file.state # "corrupt"
  /\ config_file' = FileCorrupt
  /\ faults' = faults + 1
  /\ UNCHANGED <<DEFAULT_CONFIG, call, appVars>>

NextPrefs ==
  \/ LoadPreferences
  \/ UpdatePreference
  \/ GetPreference
  \/ FileLost
  \/ FileCorrupted

SpecPrefs == InitPrefs /\ [][NextPrefs]_vars

(***************************************************************************)
(* The application: runs of the script, each on one interaction of the     *)
(* user with the widgets the run before displayed                          *)
(***************************************************************************)
BigCatalog == SubSeq(AllEntries, 1, NCatalog)

PromptFiles ==
  {[state |-> "absent"],
   [state |-> "ok", data |-> <<EntryBasicCleanup, EntryFormalEmail>>],
   [state |-> "ok", data |-> <<EntryFormalEmail, EntryCasualTone, EntryDraft>>],
   [state |-> "ok", data |-> BigCatalog]}

\* A selection the application stores: the first MaxSelected checkboxes of
\* the largest catalog.
StoredSelection ==
  LET options == TabsFrom(categorize_prompts(BigCatalog), 1)
  IN [i \in 1..MaxSelected |-> options[i][1]]

StoredFiles ==
  {FileWith([model |-> Str(<<"mistral">>),
             download_path |-> <<"~/Desktop">>,
             last_used_transformations |-> StoredSelection])}

Init ==
  /\ call = [op |-> "none"]
  /\ config_file \in {FileAbsent, FileCorrupt} \cup StoredFiles
  /\ DEFAULT_CONFIG = BuiltinDefaults
  /\ prompts_file \in PromptFiles
  /\ session = FreshSession
  /\ render = NoRender
  /\ renders = 0
  /\ faults = 0

\* What the endpoint answers to GET / and GET /api/tags in one run.
Up(tags) ==
  [root |-> Response(200, "Ollama is running", FALSE),
   tags |-> Response(200, tags, FALSE)]

Down ==
  [root |-> TransportFailure("Connection refused"),
   tags |-> TransportFailure("Connection refused")]

Probes ==
  {Up("{\"models\":[{\"name\":\"llama3\"},{\"name\":\"mistral\"}]}"),
   Up("{\"models\":[]}"), Up("{\"models\":[{\"size\":1}]}"), Down}

\* What the endpoint answers to POST /api/generate.
GenerateOutcomes ==
  {TransportFailure("Connection refused"),
   Response(200, "{\"response\":\"X\"}", FALSE),
   Response(200, "{\"response\":null}", FALSE),
   Response(200, "[]", FALSE),
   Response(500, "{\"error\":\"no such model\"}", FALSE)}

\* What the user types, uploads or pastes.
UserText == <<"hello">>

Env(probe) ==
  [root |-> probe.root, tags |-> probe.tags,
   generate |-> TransportFailure("Connection refused"),
   clipboard |-> None, copy_ok |-> FALSE, save_ok |-> FALSE,
   timestamp |-> "20240101_000000"]

\* The widgets untouched.
NoUI ==
  [uploaded_file |-> [kind |-> "none"], paste |-> FALSE,
   clear_input |-> FALSE, input_edit |-> None, picked |-> None,
   transform |-> FALSE, search_edit |-> None, toggled |-> {},
   output_edit |-> None, copy |-> FALSE, clear_output |-> FALSE,
   filename_edit |-> None, path_edit |-> None, download |-> FALSE,
   clear_all |-> FALSE]

Run(event, ui, env) ==
  /\ renders < MaxRenders
  /\ \E w \in {main(session, CurrentConfig, prompts_file, ui, env)} :
       /\ session' = w.ss
       /\ SetConfig(w.cfg)
       /\ render' = [event |-> event, aborted |-> w.aborted, log |-> w.log]
  /\ renders' = renders + 1
  /\ UNCHANGED <<call, prompts_file, faults>>

\* The widgets of the last run are on the page.
Displayed == session.started /\ ~render.aborted

\* The page is loaded, or rerun with no widget touched.
Rerun == \E probe \in Probes : Run("rerun", NoUI, Env(probe))

Upload ==
  \E probe \in Probes :
    \E file \in {[kind |-> "file", text |-> UserText],
                 [kind |-> "unsupported"]} :
      /\ Displayed
      /\ Run("upload", [NoUI EXCEPT !.uploaded_file = file], Env(probe))

Paste ==
  \E probe \in Probes, clipboard \in {None, Str(UserText)} :
    /\ Displayed
    /\ Run("paste", [NoUI EXCEPT !.paste = TRUE],
           [Env(probe) EXCEPT !.clipboard = clipboard])

ClearInput ==
  \E probe \in Probes :
    /\ Displayed
    /\ Run("clear_input", [NoUI EXCEPT !.clear_input = TRUE], Env(probe))

EditInput ==
  \E probe \in Probes :
    /\ Displayed
    /\ Run("edit_input", [NoUI EXCEPT !.input_edit = Str(UserText)],
           Env(probe))

PickModel ==
  \E probe \in Probes :
    \E model \in Range(session.available_models) :
      /\ Displayed
      /\ Run("pick_model", [NoUI EXCEPT !.picked = model], Env(probe))

\* The button is pressed where the last run displayed it enabled.
PressTransform ==
  \E probe \in Probes :
    \E generate \in IF probe = Down THEN {Down.root} ELSE GenerateOutcomes :
    /\ Displayed
    /\ render.log.connected
    /\ Run("transform", [NoUI EXCEPT !.transform = TRUE],
           [Env(probe) EXCEPT !.generate = generate])

Search ==
  \E probe \in Probes :
    \E term \in {<<>>, <<"E","M","A","I","L">>} :
      /\ Displayed
      /\ Run("search", [NoUI EXCEPT !.search_edit = Str(term)], Env(probe))

ToggleCheckbox ==
  \E probe \in Probes :
    \E i \in 1..Len(session.prompts_data) :
      /\ Displayed
      /\ Run("toggle", [NoUI EXCEPT !.toggled = {session.prompts_data[i].id}],
             Env(probe))

EditOutput ==
  \E probe \in Probes :
    /\ Displayed
    /\ Run("edit_output", [NoUI EXCEPT !.output_edit = Str(<<"edited">>)],
           Env(probe))

Copy ==
  \E probe \in Probes, copy_ok \in BOOLEAN :
    /\ Displayed
    /\ Run("copy", [NoUI EXCEPT !.copy = TRUE],
           [Env(probe) EXCEPT !.copy_ok = copy_ok])

ClearOutput ==
  \E probe \in Probes :
    /\ Displayed
    /\ Run("clear_output", [NoUI EXCEPT !.clear_output = TRUE], Env(probe))

EditPath ==
  \E probe \in Probes :
    /\ Displayed
    /\ Run("edit_path", [NoUI EXCEPT !.path_edit = Str(<<"/tmp">>)],
           Env(probe))

Download ==
  \E probe \in Probes, save_ok \in BOOLEAN :
    /\ Displayed
    /\ Run("download", [NoUI EXCEPT !.download = TRUE],
           [Env(probe) EXCEPT !.save_ok = save_ok])

ClearAll ==
  \E probe \in Probes :
    /\ Displayed
    /\ Run("clear_all", [NoUI EXCEPT !.clear_all = TRUE], Env(probe))

\* The browser opens the page anew: an empty st.session_state.
NewSession ==
  /\ session.started
  /\ session' = FreshSession
  /\ render' = NoRender
  /\ UNCHANGED <<call, cfgVars, prompts_file, renders, faults>>

Next ==
  \/ Rerun
  \/ Upload
  \/ Paste
  \/ ClearInput
  \/ EditInput
  \/ PickModel
  \/ PressTransform
  \/ Search
  \/ ToggleCheckbox
  \/ EditOutput
  \/ Copy
  \/ ClearOutput
  \/ EditPath
  \/ Download
  \/ ClearAll
  \/ NewSession
  \/ FileLost
  \/ FileCorrupted

Spec == Init /\ [][Next]_vars

(***************************************************************************)
(* Library claims, under SpecLib                                           *)
(***************************************************************************)
\* The directive as the specification words it.
TrailingDirective ==
  <<"A","p","p","l","y"," ","A","L","L"," ","o","f"," ","t","h","e"," ","a",
        "b","o","v","e"," ","t","r","a","n","s","f","o","r","m","a","t","i",
        "o","n","s"," ","t","o"," ","t","h","e"," ","u","s","e","r","'","s",
        " ","i","n","p","u","t"," ","t","e","x","t",".">>

\* The length of the first n texts of prompts, each with its separator.
RECURSIVE OffsetOf(_, _)
OffsetOf(prompts, n) ==
  IF n = 0 THEN 0
  ELSE OffsetOf(prompts, n - 1) + Len(prompts[n]) + 2

\* r is the texts of prompts in order, a double newline between two
\* neighbours, then one newline and the directive.
IsComposition(r, prompts) ==
  LET n == Len(prompts)
      end == OffsetOf(prompts, n) - 2
  IN /\ \A i \in 1..n :
          SubSeq(r, OffsetOf(prompts, i - 1) + 1,
                    OffsetOf(prompts, i) - 2) = prompts[i]
     /\ \A i \in 1..(n - 1) :
          /\ r[OffsetOf(prompts, i) - 1] = "\n"
          /\ r[OffsetOf(prompts, i)] = "\n"
     /\ Len(r) = end + 1 + Len(TrailingDirective)
     /\ r[end + 1] = "\n"
     /\ SubSeq(r, end + 2, Len(r)) = TrailingDirective

\* C3: concatenate_prompts returns the empty string for no texts; else the
\* texts in input order joined by a double newline, then a single newline
\* and the trailing directive; compose([a]) = a + "\n" + directive,
\* compose([a,b]) = a + "\n\n" + b + "\n" + directive, and the texts of
\* formal_email and basic_cleanup compose in that order.
C3_Compose ==
  Returned("concatenate_prompts") =>
    LET p == call.prompts
        r == call.result
    IN /\ p = <<>> => r = <<>>
       /\ p # <<>> => IsComposition(r, p)
       /\ Len(p) = 1 => r = p[1] \o <<"\n">> \o TrailingDirective
       /\ Len(p) = 2 =>
            r = p[1] \o <<"\n", "\n">> \o p[2] \o <<"\n">> \o TrailingDirective
       /\ p = <<EntryFormalEmail.data.prompt, EntryBasicCleanup.data.prompt>> =>
            r = <<"M","a","k","e"," ","i","t"," ","f","o","r","m","a","l",".">>
                \o <<"\n", "\n">> \o DefaultPromptText
                \o <<"\n">> \o TrailingDirective

C3_Witness ==
  /\ Returned("concatenate_prompts")
  /\ call.prompts = <<EntryFormalEmail.data.prompt,
                      EntryBasicCleanup.data.prompt>>
  /\ Len(call.result) > Len(DefaultPromptText)

\* s contains t, ignoring case.
ContainsIgnoringCase(s, t) ==
  \E i \in 0..(Len(s) - Len(t)) :
    \A k \in 1..Len(t) : lower_char(s[i + k]) = lower_char(t[k])

\* C8: filter_prompts returns the catalog unchanged for an empty term; for
\* a non-empty term exactly the entries, in catalog order and with their
\* definitions, whose identifier, name or description contains the term
\* ignoring case.
C8_Filter ==
  Returned("filter_prompts") =>
    LET d == call.prompts_data
        t == call.search_term
        r == call.result
        Keep(e) == \/ ContainsIgnoringCase(e.id, t)
                   \/ ContainsIgnoringCase(Get(e.data, "name", <<>>), t)
                   \/ ContainsIgnoringCase(Get(e.data, "description", <<>>), t)
    IN /\ t = <<>> => r = d
       /\ t # <<>> => r = SelectSeq(d, Keep)

C8_Witness ==
  /\ Returned("filter_prompts")
  /\ call.search_term = <<"E","M","A","I","L">>
  /\ call.result # <<>>
  /\ Len(call.result) < Len(call.prompts_data)

\* The bucket the specification gives an entry: that of the first rule,
\* in priority order, with a keyword in the lowercased name or description.
ExpectedCategory(prompt_data) ==
  LET name == lower(Get(prompt_data, "name", <<>>))
      description == lower(Get(prompt_data, "description", <<>>))
      Hits == {r \in 1..Len(CategoryRules) :
                 \E w \in Range(CategoryRules[r].words) :
                   str_in(w, name) \/ str_in(w, description)}
  IN IF Hits = {} THEN "Other"
     ELSE CategoryRules[CHOOSE r \in Hits : \A q \in Hits : r <= q].category

\* C9: categorize_prompts puts every catalog entry in exactly one bucket,
\* the one of the first matching rule or "Other", adds nothing, and orders
\* each bucket by display name.
C9_Categorize ==
  Returned("categorize_prompts") =>
    LET d == call.prompts_data
        r == call.result
        Item(e) == <<e.id, Get(e.data, "name", Unknown)>>
        Places(e) == {<<c, i>> \in Range(CategoryNames) \X (1..Len(d)) :
                        i <= Len(r[c]) /\ r[c][i] = Item(e)}
    IN /\ DOMAIN r = Range(CategoryNames)
       /\ \A k \in 1..Len(d) :
            /\ Cardinality(Places(d[k])) = 1
            /\ \A pl \in Places(d[k]) : pl[1] = ExpectedCategory(d[k].data)
       /\ \A c \in DOMAIN r :
            /\ \A i \in 1..Len(r[c]) : \E k \in 1..Len(d) : r[c][i] = Item(d[k])
            /\ \A i, j \in 1..Len(r[c]) :
                 i < j => ~str_lt(r[c][j][2], r[c][i][2])

\* Two entries of one bucket that the sort has put in the other order, and
\* an entry that matches rules of two buckets.
C9_Witness ==
  /\ Returned("categorize_prompts")
  /\ Len(call.prompts_data) = 2
  /\ Len(call.result["Professional"]) = 2
  /\ call.result["Professional"][1][1] = call.prompts_data[2].id
  /\ \E k \in 1..2 : call.prompts_data[k] = EntryFormalEmail

Is2xx(outcome) ==
  outcome.kind = "response" /\ outcome.status_code \in 200..299

\* C5: generate_text always returns a string and never raises: on a 2xx
\* response the "response" field of the payload ("" if the field is
\* absent), on a non-2xx response a string with the status code and the
\* raw body, on a transport failure a string with the exception text.
C5_GenerateText ==
  Returned("generate_text") =>
    LET o == call.outcome
        r == call.result
    IN /\ r.kind = "return"
       /\ r.value.py = "str"
       /\ Is2xx(o) /\ json_loads(o.text).py = "dict" =>
            r.value = Get(json_loads(o.text).v, "response", Str(<<>>))
       /\ o.kind = "response" /\ ~Is2xx(o) =>
            /\ ToString(o.status_code) \in Range(r.value.v)
            /\ o.text \in Range(r.value.v)
       /\ o.kind = "exception" => o.text \in Range(r.value.v)

\* The original C6: true on any 2xx response, false on every other status
\* and on every transport failure.
C6_Any2xx ==
  Returned("check_connection") =>
    call.result = Return(Is2xx(call.outcome))

\* C6, amended: check_connection never raises and returns true exactly on
\* a response with status 200; every other status, 2xx or not, and every
\* transport failure give false.
C6_CheckConnection ==
  Returned("check_connection") =>
    LET o == call.outcome
        r == call.result
    IN /\ r.kind = "return"
       /\ r.value \in BOOLEAN
       /\ r.value <=> (o.kind = "response" /\ o.status_code = 200)
       /\ o.kind = "exception" => r.value = FALSE

C6_Witness ==
  /\ Returned("check_connection")
  /\ call.outcome.kind = "response"
  /\ call.outcome.status_code = 204
  /\ call.result = Return(FALSE)

\* The model names of a well-formed payload, in payload order.
PayloadNames(body) ==
  LET models == Get(body.v, "models", PyList(<<>>)).v
  IN [i \in 1..Len(models) |-> models[i].v.name]

WellFormedTags(body) ==
  /\ body.py = "dict"
  /\ Get(body.v, "models", PyList(<<>>)).py = "list"
  /\ \A m \in Range(Get(body.v, "models", PyList(<<>>)).v) :
       m.py = "dict" /\ "name" \in DOMAIN m.v

\* C7: list_models never raises; on success it returns the names of the
\* models of the payload in payload order, and on a transport error, a
\* non-2xx status or a malformed payload the empty sequence.
C7_ListModels ==
  Returned("list_models") =>
    LET o == call.outcome
        r == call.result
        ok == Is2xx(o) /\ WellFormedTags(json_loads(o.text))
    IN /\ r.kind = "return"
       /\ o.kind = "response" /\ o.status_code = 200 /\ ok =>
            r.value = PayloadNames(json_loads(o.text))
       /\ ~ok => r.value = <<>>

(***************************************************************************)
(* Resolution claims, under SpecLib: transform_text called in a session    *)
(***************************************************************************)
Known(prompts_data, prompt_id) ==
  \E k \in 1..Len(prompts_data) : prompts_data[k].id = prompt_id

\* The instruction text the catalog gives an identifier it lists; "" when
\* the entry has none.
InstructionOf(prompts_data, prompt_id) ==
  LET entry == prompts_data[CHOOSE k \in 1..Len(prompts_data) :
                              prompts_data[k].id = prompt_id]
  IN IF "prompt" \in DOMAIN entry.data THEN entry.data.prompt ELSE <<>>

Resolvable(prompts_data, prompt_id) ==
  /\ Known(prompts_data, prompt_id)
  /\ InstructionOf(prompts_data, prompt_id) # <<>>

\* a occurs in b, in order: some elements of b, in their order, are a.
IsSubsequence(a, b) ==
  \E f \in [1..Len(a) -> 1..Len(b)] :
    /\ \A i \in 1..Len(a) : b[f[i]] = a[i]
    /\ \A i, j \in 1..Len(a) : i < j => f[i] < f[j]

\* The call of transform_text got past the test of the input text.
Resolved ==
  Returned("transform_text") /\ call.input_text # <<>>

\* The original C1: the texts handed to the composer contain the
\* instruction text of each selected identifier that the catalog lists, in
\* the order of the selection.
C1_EveryListed ==
  Resolved =>
    LET d == call.prompts_data
        IsKnown(id) == Known(d, id)
        listed == SelectSeq(call.selected_transformations, IsKnown)
    IN /\ Len(render.log.transforms) = 1
       /\ IsSubsequence([j \in 1..Len(listed) |-> InstructionOf(d, listed[j])],
                        render.log.transforms[1].selected_prompts)

\* C1, amended: transform_text never raises while it resolves, and when
\* any selected identifier is listed in the catalog with a non-empty
\* instruction text, the texts handed to the composer are exactly the
\* texts of those identifiers, in the order of the selection; identifiers
\* that the catalog does not list, or lists with an empty text, are
\* skipped silently.
C1_Resolution ==
  Resolved =>
    LET d == call.prompts_data
        IsResolvable(id) == Resolvable(d, id)
        resolvable == SelectSeq(call.selected_transformations, IsResolvable)
    IN /\ ~render.aborted
       /\ render.log.raised = None
       /\ render.log.warnings = {}
       /\ Len(render.log.transforms) = 1
       /\ render.log.transforms[1].selection = call.selected_transformations
       /\ resolvable # <<>> =>
            render.log.transforms[1].selected_prompts =
              [j \in 1..Len(resolvable) |-> InstructionOf(d, resolvable[j])]

\* A selection of an identifier listed with a text, one listed with an
\* empty text and one not listed, resolved in the order of the selection,
\* which is not that of the catalog.
C1_Witness ==
  /\ Resolved
  /\ call.prompts_data = <<EntryFormalEmail, EntryDraft, EntryBasicCleanup>>
  /\ \E s \in {<<EntryBasicCleanup.id, EntryDraft.id, EntryFormalEmail.id>>,
                <<EntryBasicCleanup.id, EntryHaiku.id, EntryFormalEmail.id>>} :
       call.selected_transformations = s
  /\ render.log.transforms[1].selected_prompts =
       <<DefaultPromptText, EntryFormalEmail.data.prompt>>

\* C2: when the selection is empty or no selected identifier resolves
\* (none is listed in the catalog with an instruction text), exactly one
\* instruction is handed to the composer, the built-in "Basic Cleanup"
\* text; in every transformation request the composer is handed a
\* non-empty sequence and the request carries what it composed of it.
C2_Fallback ==
  Resolved =>
    LET d == call.prompts_data
        s == call.selected_transformations
    IN /\ Len(render.log.transforms) = 1
       /\ Len(render.log.requests) = 1
       /\ render.log.transforms[1].selected_prompts # <<>>
       /\ (\A j \in 1..Len(s) : ~Resolvable(d, s[j])) =>
            render.log.transforms[1].selected_prompts = <<DefaultPromptText>>
       /\ render.log.requests[1].system # <<>>
       /\ IsComposition(render.log.requests[1].system,
                        render.log.transforms[1].selected_prompts)

\* The empty catalog and a selection of identifiers it cannot list.
C2_Witness ==
  /\ Resolved
  /\ call.prompts_data = <<>>
  /\ Len(call.selected_transformations) = 2
  /\ render.log.transforms[1].selected_prompts = <<DefaultPromptText>>

(***************************************************************************)
(* Application claims, under Spec                                          *)
(***************************************************************************)
\* C4: when a run presents more than 10 identifiers as checked, the
\* selection it stores is the first 10 in the order presented and it
\* warns; the selection of the session holds at most 10 identifiers in
\* every state, the one initialised from the stored preferences included,
\* and no request is composed from more than 10 identifiers.
C4_SelectionCap ==
  /\ Len(render.log.presented) > 10 =>
       /\ session.selected_transformations = SubSeq(render.log.presented, 1, 10)
       /\ \E text \in render.log.warnings : TRUE
  /\ Len(session.selected_transformations) <= 10
  /\ \A i \in 1..Len(render.log.transforms) :
       /\ Len(render.log.transforms[i].selection) <= 10
       /\ Len(render.log.transforms[i].selected_prompts) <= 10

\* A session that starts from a stored selection of 10, in which one more
\* checkbox is then checked.
C4_Witness ==
  /\ render.event = "toggle"
  /\ Len(render.log.presented) = 11
  /\ Len(session.selected_transformations) = 10
  /\ session.selected_transformations = StoredSelection
  /\ render.log.warnings # {}

(***************************************************************************)
(* Preference store claims, under SpecPrefs                                *)
(***************************************************************************)
\* C10: whenever load_preferences (called directly or by update_preference
\* or get_preference) finds the file absent or unparsable, what it returns
\* is the built-in defaults: model "llama3", download_path ~/Desktop,
\* last_used_transformations ["basic_cleanup"], whatever was updated
\* before; a direct load leaves exactly these in the file.
C10_Defaults ==
  /\ call.op \in {"load_preferences", "update_preference", "get_preference"}
       /\ call.found # "ok"
       => call.loaded = BuiltinDefaults
  /\ call.op = "load_preferences" /\ call.found # "ok"
       => call.written = FileWith(BuiltinDefaults)

C12_ClearAll ==
  Returned("clear_all") =>
    /\ session.selected_transformations =
         <<<<"b","a","s","i","c","_","c","l","e","a","n","u","p">>>>
    /\ session.input_text = <<>>
    /\ session.output_text = Str(<<>>)
    /\ session.suggested_filename = <<"transformed_text.txt">>
    /\ session.transformation_success = FALSE
    /\ session.ollama_model = call.before.ollama_model
    /\ session.download_path = call.before.download_path
    /\ session.search_term = call.before.search_term
    /\ session.prompts_data = call.before.prompts_data
    /\ CurrentConfig = call.config_before
    /\ ~render.aborted

\* A session with a search under way, two identifiers selected, texts on
\* both sides and a stored preference file.
C12_Witness ==
  /\ Returned("clear_all")
  /\ Len(call.before.selected_transformations) = 2
  /\ call.before.search_term # <<>>
  /\ call.before.input_text # <<>>
  /\ call.before.output_text = Str(<<"X">>)
  /\ call.before.transformation_success
  /\ call.before.suggested_filename # session.suggested_filename
  /\ config_file.state = "ok"

\* The session in which transform_text was called.
BeforeTransform == TransformSession(call)

\* The preferences load_preferences gave before the call.
PreferencesBefore ==
  IF call.config_before.file.state = "ok"
  THEN call.config_before.file.preferences
  ELSE call.config_before.DEFAULT_CONFIG

\* C13: a call of transform_text with a non-empty input text makes exactly
\* one generation request, with the payload {model: the model of the
\* session, prompt: the input text, temperature: 0.7, stream: false,
\* system: the composed instruction}, and stores exactly one result in
\* output_text; a call with an empty input text makes no request and
\* leaves the output text, the suggested filename, the error state, the
\* success flag and the stored preferences as they were.
C13_OneRequest ==
  Returned("transform_text") =>
    /\ call.input_text # <<>> =>
         /\ Len(render.log.requests) = 1
         /\ Len(render.log.transforms) = 1
         /\ render.log.requests[1] =
              [model |-> BeforeTransform.ollama_model,
               prompt |-> call.input_text,
               temperature |-> "0.7",
               stream |-> FALSE,
               system |-> render.log.transforms[1].system_prompt]
         /\ IsComposition(render.log.transforms[1].system_prompt,
                          render.log.transforms[1].selected_prompts)
         /\ Len(render.log.outputs) = 1
         /\ session.output_text = render.log.outputs[1]
    /\ call.input_text = <<>> =>
         /\ render.log.requests = <<>>
         /\ render.log.outputs = <<>>
         /\ session.output_text = BeforeTransform.output_text
         /\ session.suggested_filename = BeforeTransform.suggested_filename
         /\ session.ollama_error = BeforeTransform.ollama_error
         /\ session.transformation_success
              = BeforeTransform.transformation_success
         /\ CurrentConfig = call.config_before

\* C14: after a call of transform_text with a non-empty input text, the
\* stored preference last_used_transformations is the selection of the
\* call, the other stored preferences are as before, and a session that
\* starts then takes that list, in that order, as its selection.
C14_RoundTrip ==
  Resolved =>
    /\ config_file.state = "ok"
    /\ config_file.preferences.last_used_transformations
         = call.selected_transformations
    /\ config_file.preferences.model = PreferencesBefore.model
    /\ config_file.preferences.download_path = PreferencesBefore.download_path
    /\ init_session_state([ss |-> FreshSession, cfg |-> CurrentConfig,
                           log |-> EmptyLog, aborted |-> FALSE],
                          prompts_file).ss.selected_transformations
         = call.selected_transformations

\* C15: after a call of transform_text the success flag is true only if
\* the generation request ended with a successful response; after a
\* request that failed, by its status or in transport, the flag is false.
C15_SuccessFlag ==
  Resolved =>
    /\ session.transformation_success => Is2xx(call.outcome)
    /\ ~Is2xx(call.outcome) => ~session.transformation_success

\* The model load_preferences gives: the persisted "model" preference.
PreferredModel(cfg) == load_preferences(cfg).value.model

\* The model of the session when a run starts: the one the session holds,
\* or the preferred one where the run is the first of the session.
ModelAtStart ==
  IF session.started THEN session.ollama_model
  ELSE PreferredModel(CurrentConfig)

\* C16: in a run of the page the model of the session and the persisted
\* "model" preference change only where the user picks a model from the
\* list; a run whose probe fails (no model listed) or whose list lacks the
\* preferred model leaves both as they were, and the persisted model is
\* never null.
C16_ModelStability ==
  [][renders' = renders + 1 =>
       /\ \/ render'.event = "pick_model"
          \/ /\ session'.ollama_model = ModelAtStart
             /\ PreferredModel(CurrentConfig') = PreferredModel(CurrentConfig)
       /\ PreferredModel(CurrentConfig') # None]_vars

\* C17: a run of the page in which the user only changes the search term
\* leaves the selection of the session as it was: the identifiers selected
\* before remain selected, in the same order, whether or not they match
\* the filter.
C17_SearchKeepsSelection ==
  [][renders' = renders + 1 /\ render'.event = "search" =>
       session'.selected_transformations
         = session.selected_transformations]_vars

=============================================================================
